---------------------------- MODULE Spec2Model ----------------------------
(***************************************************************************)
(* Model of src/mapping.py: the aggregation of demand/material records     *)
(* into materialChangeIndex nodes with nested vehicleProductionStep nodes. *)
(*                                                                         *)
(* Strings are sequences of one-character strings, so that Python's slices *)
(* (s[0:7], s[7:9], s[0:2]), startswith and int() are computed, not        *)
(* assumed.  A dict is a sequence of key/value entries in insertion order. *)
(*                                                                         *)
(* Spec is process on a payload: filter, grouping, aggregation.            *)
(* SpecDirect is build_material_change_indexes on a mapping grouped from   *)
(* any records, so that a group can hold several production-step codes     *)
(* (through process the "VH_" filter leaves only the code "VH").           *)
(* Only " " stands for whitespace and only ASCII digits occur in int().    *)
(* The vehicle attributes and headers of process are not modelled.         *)
(***************************************************************************)
EXTENDS Integers, Sequences, FiniteSets, TLC

VARIABLES
    pc,                                   \* position in process / build_material_change_indexes
    materials,                            \* stard_kafka_vehicles["materials"] (process), or the records
                                          \* behind a mapping handed to build_material_change_indexes
    materials_grouped_by_material_number, \* the insertion-ordered mapping materialNumber -> records
    gi,                                   \* outer loop of line 53: index of the current group
    ri,                                   \* inner loop of line 56: index of the next record of the group
    vehicle_production_steps,             \* line 54
    production_step_exists,               \* line 55
    material_change_indexes,              \* line 52
    result                                \* what the entry point returned, or raised

vars == <<pc, materials, materials_grouped_by_material_number, gi, ri,
          vehicle_production_steps, production_step_exists,
          material_change_indexes, result>>

---------------------------------------------------------------------------
(* Bounds and input domains *)

MaxRecords == 3

Quantities == {1, 2}

\* materialNumber strings
MatA01  == <<"A","0","0","0","0","0","0","0","1">>
MatA01X == <<"A","0","0","0","0","0","0","0","1","X">>
MatA02  == <<"A","0","0","0","0","0","0","0","2">>
MatA1   == <<"A","0","0","0","0","0","0","1">>
MatA    == <<"A","0","0","0","0","0","0">>
MatAAA  == <<"A","0","0","0","0","0","0","A","A">>

\* plannedOrderId strings
OrdVH1 == <<"V","H","_","1">>
OrdVH2 == <<"V","H","_","2">>
OrdKA1 == <<"K","A","_","1">>

DemandRecord(m, q, o) ==
    [materialNumber |-> m, quantity |-> q, plannedOrderId |-> o,
     reservationPosition |-> "0001", reservationNumber |-> "R1",
     peggedRequirement |-> "P1", itemCategory |-> "L"]

\* payloads of process: well-formed, variant, short and non-numeric material
\* numbers; vehicle-level orders and one order the filter drops
PayloadRecords ==
    { DemandRecord(m, q, o) :
        m \in {MatA01, MatA01X, MatA02, MatA1, MatAAA}, q \in Quantities,
        o \in {OrdVH1, OrdKA1} }
    \cup { DemandRecord(MatA, 1, OrdVH1) }

\* records behind a mapping handed to build_material_change_indexes directly:
\* the step code is whatever the first two characters of plannedOrderId are
GroupedRecords ==
    { DemandRecord(m, q, o) :
        m \in {MatA01, MatA01X, MatA02}, q \in Quantities,
        o \in {OrdVH1, OrdVH2, OrdKA1} }
    \cup { DemandRecord(MatAAA, 1, OrdVH1) }

SeqsUpTo(S, n) == UNION { [1..k -> S] : k \in 0..n }

---------------------------------------------------------------------------
(* Python primitives *)

Min(a, b) == IF a <= b THEN a ELSE b

\* s[a:b] for 0 <= a <= b
Slice(s, a, b) == SubSeq(s, a + 1, Min(b, Len(s)))

\* s.startswith(prefix)
startswith(s, prefix) ==
    /\ Len(s) >= Len(prefix)
    /\ SubSeq(s, 1, Len(prefix)) = prefix

Digits == <<"0","1","2","3","4","5","6","7","8","9">>

IsDigit(c) == \E i \in 1..10 : Digits[i] = c

DigitValue(c) == (CHOOSE i \in 1..10 : Digits[i] = c) - 1

IsSpace(c) == c = " "

RECURSIVE LStrip(_)
LStrip(s) == IF s # <<>> /\ IsSpace(Head(s)) THEN LStrip(Tail(s)) ELSE s

RECURSIVE RStrip(_)
RStrip(s) ==
    IF s # <<>> /\ IsSpace(s[Len(s)]) THEN RStrip(SubSeq(s, 1, Len(s) - 1)) ELSE s

\* the digits of an int() literal: a digit first, then digits, each optionally
\* preceded by one underscore; acc is the value read so far
RECURSIVE ParseDigits(_, _, _)
ParseDigits(s, acc, first) ==
    IF s = <<>> THEN [ok |-> ~first, val |-> acc]
    ELSE IF IsDigit(Head(s))
         THEN ParseDigits(Tail(s), acc * 10 + DigitValue(Head(s)), FALSE)
    ELSE IF Head(s) = "_" /\ ~first /\ Len(s) >= 2 /\ IsDigit(s[2])
         THEN ParseDigits(Tail(s), acc, FALSE)
    ELSE [ok |-> FALSE, val |-> 0]

\* int(s) of a str: surrounding whitespace stripped, an optional sign, decimal
\* digits.  ok = FALSE is the ValueError.
PyInt(s) ==
    LET t == RStrip(LStrip(s))
        signed == t # <<>> /\ Head(t) \in {"+", "-"}
        d == ParseDigits(IF signed THEN Tail(t) ELSE t, 0, TRUE)
    IN  IF d.ok /\ signed /\ Head(t) = "-" THEN [ok |-> TRUE, val |-> 0 - d.val]
        ELSE d

RECURSIVE sum_quantity(_)
\* sum(grouped_material["quantity"] for grouped_material in grouped_materials)
sum_quantity(grouped_materials) ==
    IF grouped_materials = <<>> THEN 0
    ELSE Head(grouped_materials).quantity + sum_quantity(Tail(grouped_materials))

---------------------------------------------------------------------------
(* The functions of mapping.py *)

\* variant: the comprehension without its condition
filter_vehicle_orders_unfiltered(all_materials) == all_materials

\* line 138: [m for m in all_materials if m["plannedOrderId"].startswith("VH_")]
filter_vehicle_orders(all_materials) ==
    SelectSeq(all_materials, LAMBDA m : startswith(m.plannedOrderId, <<"V","H","_">>))

\* index of the entry of dict d with this key, 0 when the key is absent
KeyIndex(d, key) ==
    IF \E i \in 1..Len(d) : d[i].key = key
    THEN CHOOSE i \in 1..Len(d) : d[i].key = key
    ELSE 0

\* variant: a new key is put in front of the keys already there
dict_append_front(d, key, material) ==
    LET i == KeyIndex(d, key)
    IN  IF i = 0 THEN <<[key |-> key, items |-> <<material>>]>> \o d
        ELSE [d EXCEPT ![i].items = Append(@, material)]

\* d[key].append(material) on a defaultdict(list): a new key goes last
dict_append(d, key, material) ==
    LET i == KeyIndex(d, key)
    IN  IF i = 0 THEN Append(d, [key |-> key, items |-> <<material>>])
        ELSE [d EXCEPT ![i].items = Append(@, material)]

RECURSIVE group_by_material_number(_, _)
\* lines 139-142: the grouping loop, d the mapping built so far
group_by_material_number(filtered_materials, d) ==
    IF filtered_materials = <<>> THEN d
    ELSE group_by_material_number(
             Tail(filtered_materials),
             dict_append(d, Head(filtered_materials).materialNumber,
                         Head(filtered_materials)))

build_grouped_materials(all_materials) ==
    group_by_material_number(filter_vehicle_orders(all_materials), <<>>)

build_vehicle_production_step(grouped_material, production_step) ==
    [type |-> "vehicleProductionStep",
     attributes |-> [productionStep |-> production_step],
     relationshipAttributes |->
        [quantity |-> grouped_material.quantity,
         plannedOrderNumber |-> grouped_material.plannedOrderId,
         reservationItemNumber |-> grouped_material.reservationPosition,
         reservationNumber |-> grouped_material.reservationNumber,
         materialGroupTopLevel |-> grouped_material.peggedRequirement,
         itemCategory |-> grouped_material.itemCategory]]

RECURSIVE prod_step_scan(_, _, _, _, _)
\* lines 124-133: the for loop from its i-th element on.  The matching node's
\* quantity is raised in place and the loop is left (break); a node that does
\* not match sets the flag to False.
prod_step_scan(grouped_material, production_step, steps, exists, i) ==
    IF i > Len(steps) THEN [steps |-> steps, exists |-> exists]
    ELSE IF steps[i].attributes.productionStep = production_step
         THEN [steps |-> [steps EXCEPT ![i].relationshipAttributes.quantity =
                                           @ + grouped_material.quantity],
               exists |-> TRUE]
         ELSE prod_step_scan(grouped_material, production_step, steps, FALSE, i + 1)

RECURSIVE prod_step_scan_no_break(_, _, _, _, _)
\* variant: without the break the loop runs on, and the last node compared
\* decides the flag
prod_step_scan_no_break(grouped_material, production_step, steps, exists, i) ==
    IF i > Len(steps) THEN [steps |-> steps, exists |-> exists]
    ELSE IF steps[i].attributes.productionStep = production_step
         THEN prod_step_scan_no_break(
                  grouped_material, production_step,
                  [steps EXCEPT ![i].relationshipAttributes.quantity =
                                    @ + grouped_material.quantity],
                  TRUE, i + 1)
         ELSE prod_step_scan_no_break(grouped_material, production_step, steps,
                                      FALSE, i + 1)

prod_step_exist_status_no_break(grouped_material, production_step, steps, exists) ==
    prod_step_scan_no_break(grouped_material, production_step, steps, exists, 1)

\* variant: "=" for "+=" in line 128
prod_step_exist_status_assign(grouped_material, production_step, steps, exists) ==
    LET st == prod_step_scan(grouped_material, production_step, steps, exists, 1)
    IN  [exists |-> st.exists,
         steps |-> [k \in 1..Len(steps) |->
                      IF st.exists /\ st.steps[k] # steps[k]
                      THEN [steps[k] EXCEPT !.relationshipAttributes.quantity =
                                                grouped_material.quantity]
                      ELSE steps[k]]]

\* variant: the match is reported, the quantity of lines 126-128 not added
prod_step_exist_status_no_add(grouped_material, production_step, steps, exists) ==
    [exists |-> prod_step_scan(grouped_material, production_step, steps, exists, 1).exists,
     steps |-> steps]

\* the returned flag, and the list as the call leaves it
prod_step_exist_status(grouped_material, production_step, steps, exists) ==
    prod_step_scan(grouped_material, production_step, steps, exists, 1)

\* lines 78-91; raised = TRUE is the ValueError of int(material_number[7:9])
build_material_change_index(grouped_materials, material_number, steps) ==
    LET n == PyInt(Slice(material_number, 7, 9))
    IN  [raised |-> ~n.ok,
         node |->
            [type |-> "materialChangeIndex",
             attributes |-> [partNumber |-> Slice(material_number, 0, 7),
                             changeIndex |-> n.val],
             relationshipAttributes |-> [quantity |-> sum_quantity(grouped_materials)],
             relationshipChildren |-> steps]]

RECURSIVE find_material_change_index(_, _, _)
\* lines 110-119: next(filter(lambda ..., material_change_indexes), None) from
\* the i-th node on.  int() is evaluated only for a node whose partNumber
\* matches (the lambda's "and"), and raises there when the slice is no number.
find_material_change_index(mcis, material_number, i) ==
    IF i > Len(mcis) THEN [raised |-> FALSE, index |-> 0]
    ELSE IF Slice(material_number, 0, 7) = mcis[i].attributes.partNumber
         THEN LET n == PyInt(Slice(material_number, 7, 9))
              IN  IF ~n.ok THEN [raised |-> TRUE, index |-> 0]
                  ELSE IF n.val = mcis[i].attributes.changeIndex
                       THEN [raised |-> FALSE, index |-> i]
                       ELSE find_material_change_index(mcis, material_number, i + 1)
         ELSE find_material_change_index(mcis, material_number, i + 1)

\* variant: the slice compared with the stored int without int(): a str never
\* equals an int, so nothing is found
get_material_change_index_str_compare(mcis, material_number) ==
    [raised |-> FALSE, index |-> 0]

\* index 0 is None
get_material_change_index(mcis, material_number) ==
    find_material_change_index(mcis, material_number, 1)

\* variant: the group's quantity assigned, not added
merge_into_assign_quantity(node, grouped_materials, steps) ==
    [node EXCEPT !.relationshipAttributes.quantity = sum_quantity(grouped_materials),
                 !.relationshipChildren = @ \o steps]

\* variant: "=" for "+=" in line 70
merge_into_assign_children(node, grouped_materials, steps) ==
    [node EXCEPT !.relationshipAttributes.quantity = @ + sum_quantity(grouped_materials),
                 !.relationshipChildren = steps]

\* variant: the group's steps put before the node's children
merge_into_prepend_children(node, grouped_materials, steps) ==
    [node EXCEPT !.relationshipAttributes.quantity = @ + sum_quantity(grouped_materials),
                 !.relationshipChildren = steps \o @]

\* lines 65-70: the found node after the merge
merge_into(node, grouped_materials, steps) ==
    [node EXCEPT !.relationshipAttributes.quantity = @ + sum_quantity(grouped_materials),
                 !.relationshipChildren = @ \o steps]

---------------------------------------------------------------------------
(* State machine *)

NoResult == [kind |-> "none"]

InLoop == pc = "loop" /\ gi <= Len(materials_grouped_by_material_number)

group == materials_grouped_by_material_number[gi]

\* process called with a payload: nothing has run yet
Init ==
    /\ materials \in SeqsUpTo(PayloadRecords, MaxRecords)
    /\ pc = "process"
    /\ materials_grouped_by_material_number = <<>>
    /\ gi = 1
    /\ ri = 1
    /\ vehicle_production_steps = <<>>
    /\ production_step_exists = FALSE
    /\ material_change_indexes = <<>>
    /\ result = NoResult

\* build_material_change_indexes called on a mapping: lines 52-55 have run
InitDirect ==
    /\ materials \in SeqsUpTo(GroupedRecords, MaxRecords)
    /\ pc = "loop"
    /\ materials_grouped_by_material_number = group_by_material_number(materials, <<>>)
    /\ gi = 1
    /\ ri = 1
    /\ vehicle_production_steps = <<>>
    /\ production_step_exists = FALSE
    /\ material_change_indexes = <<>>
    /\ result = NoResult

\* process, lines 40-41 and 52-55: group the payload, enter the loops
BuildGroupedMaterials ==
    /\ pc = "process"
    /\ materials_grouped_by_material_number' = build_grouped_materials(materials)
    /\ pc' = "loop"
    /\ UNCHANGED <<materials, gi, ri, vehicle_production_steps,
                   production_step_exists, material_change_indexes, result>>

\* lines 56-61: one record of the current group
ReduceRecord ==
    /\ InLoop
    /\ ri <= Len(group.items)
    /\ LET grouped_material == group.items[ri]
           production_step == Slice(grouped_material.plannedOrderId, 0, 2)
           st == prod_step_exist_status(grouped_material, production_step,
                                        vehicle_production_steps,
                                        production_step_exists)
       IN  /\ production_step_exists' = st.exists
           /\ vehicle_production_steps' =
                 IF ~st.exists
                 THEN Append(st.steps,
                             build_vehicle_production_step(grouped_material,
                                                           production_step))
                 ELSE st.steps
    /\ ri' = ri + 1
    /\ UNCHANGED <<pc, materials, materials_grouped_by_material_number, gi,
                   material_change_indexes, result>>

\* the for statement of line 53 moving on: lines 54-55 for the next group
NextGroup ==
    /\ gi' = gi + 1
    /\ ri' = 1
    /\ IF gi < Len(materials_grouped_by_material_number)
       THEN vehicle_production_steps' = <<>> /\ production_step_exists' = FALSE
       ELSE UNCHANGED <<vehicle_production_steps, production_step_exists>>

AtMerge == InLoop /\ ri > Len(group.items)

\* lines 63-70: a node with the derived key exists
MergeIntoExisting ==
    /\ AtMerge
    /\ LET f == get_material_change_index(material_change_indexes, group.key)
       IN  /\ ~f.raised
           /\ f.index # 0
           /\ material_change_indexes' =
                 [material_change_indexes EXCEPT
                    ![f.index] = merge_into(@, group.items, vehicle_production_steps)]
    /\ NextGroup
    /\ UNCHANGED <<pc, materials, materials_grouped_by_material_number, result>>

\* lines 63, 71-74: no node with the derived key yet
AppendNew ==
    /\ AtMerge
    /\ LET f == get_material_change_index(material_change_indexes, group.key)
           b == build_material_change_index(group.items, group.key,
                                            vehicle_production_steps)
       IN  /\ ~f.raised
           /\ f.index = 0
           /\ ~b.raised
           /\ material_change_indexes' = Append(material_change_indexes, b.node)
    /\ NextGroup
    /\ UNCHANGED <<pc, materials, materials_grouped_by_material_number, result>>

\* int(material_number[7:9]) raises in line 114 or in line 83; nothing
\* catches it, so the call ends without a value
RaiseValueError ==
    /\ AtMerge
    /\ LET f == get_material_change_index(material_change_indexes, group.key)
           b == build_material_change_index(group.items, group.key,
                                            vehicle_production_steps)
       IN  f.raised \/ (f.index = 0 /\ b.raised)
    /\ pc' = "raised"
    /\ result' = [kind |-> "raised", error |-> "ValueError"]
    /\ UNCHANGED <<materials, materials_grouped_by_material_number, gi, ri,
                   vehicle_production_steps, production_step_exists,
                   material_change_indexes>>

\* line 75, and for process lines 43-48: the list is the body's children
Return ==
    /\ pc = "loop"
    /\ gi > Len(materials_grouped_by_material_number)
    /\ pc' = "done"
    /\ result' = [kind |-> "returned", children |-> material_change_indexes]
    /\ UNCHANGED <<materials, materials_grouped_by_material_number, gi, ri,
                   vehicle_production_steps, production_step_exists,
                   material_change_indexes>>

Next ==
    \/ BuildGroupedMaterials
    \/ ReduceRecord
    \/ MergeIntoExisting
    \/ AppendNew
    \/ RaiseValueError
    \/ Return

Spec == Init /\ [][Next]_vars

NextDirect ==
    \/ ReduceRecord
    \/ MergeIntoExisting
    \/ AppendNew
    \/ RaiseValueError
    \/ Return

SpecDirect == InitDirect /\ [][NextDirect]_vars

---------------------------------------------------------------------------
(* Vocabulary of the properties, defined apart from the functions above *)

RECURSIVE Total(_)
Total(ints) == IF ints = <<>> THEN 0 ELSE Head(ints) + Total(Tail(ints))

Last(s) == s[Len(s)]

Front(s) == SubSeq(s, 1, Len(s) - 1)

RECURSIVE DistinctInOrder(_)
\* the elements of s, each once, in the order of their first occurrence
DistinctInOrder(s) ==
    IF s = <<>> THEN <<>>
    ELSE LET d == DistinctInOrder(Front(s))
         IN  IF \E i \in 1..Len(d) : d[i] = Last(s) THEN d ELSE Append(d, Last(s))

RECURSIVE Concat(_)
Concat(seqs) == IF seqs = <<>> THEN <<>> ELSE Head(seqs) \o Concat(Tail(seqs))

VehicleLevel(rec) ==
    /\ Len(rec.plannedOrderId) >= 3
    /\ rec.plannedOrderId[1] = "V"
    /\ rec.plannedOrderId[2] = "H"
    /\ rec.plannedOrderId[3] = "_"

StepCode(rec) == <<rec.plannedOrderId[1], rec.plannedOrderId[2]>>

NodeKey(node) == <<node.attributes.partNumber, node.attributes.changeIndex>>

NodeCode(step) == step.attributes.productionStep

NodeQuantity(node) == node.relationshipAttributes.quantity

\* the (partNumber, changeIndex) key a materialNumber derives
DerivedKey(material_number) ==
    <<Slice(material_number, 0, 7), PyInt(Slice(material_number, 7, 9)).val>>

\* quantity of the records of recs with step code c
QuantityOfCode(recs, c) ==
    Total([i \in 1..Len(recs) |-> IF StepCode(recs[i]) = c THEN recs[i].quantity ELSE 0])

QuantityOf(recs) == Total([i \in 1..Len(recs) |-> recs[i].quantity])

FirstWithCode(recs, c) ==
    recs[CHOOSE i \in 1..Len(recs) :
            /\ StepCode(recs[i]) = c
            /\ \A j \in 1..(i - 1) : StepCode(recs[j]) # c]

\* the ProductionStepNode sequence one group is to contribute: one node per
\* step code in first-seen order, the quantities summed, the rest from the
\* first record of the code
ExpectedSteps(recs) ==
    LET codes == DistinctInOrder([i \in 1..Len(recs) |-> StepCode(recs[i])])
    IN  [k \in 1..Len(codes) |->
            LET first == FirstWithCode(recs, codes[k])
            IN  [type |-> "vehicleProductionStep",
                 attributes |-> [productionStep |-> codes[k]],
                 relationshipAttributes |->
                    [quantity |-> QuantityOfCode(recs, codes[k]),
                     plannedOrderNumber |-> first.plannedOrderId,
                     reservationItemNumber |-> first.reservationPosition,
                     reservationNumber |-> first.reservationNumber,
                     materialGroupTopLevel |-> first.peggedRequirement,
                     itemCategory |-> first.itemCategory]]]

Groups == materials_grouped_by_material_number

\* the groups whose materialNumber derives key, in the mapping's order
GroupsOfKey(key) == SelectSeq(Groups, LAMBDA g : DerivedKey(g.key) = key)

Returned == pc = "done" /\ result.kind = "returned"

\* the records of the current group the inner loop has consumed
Consumed == SubSeq(group.items, 1, ri - 1)

Codes(steps) == [k \in 1..Len(steps) |-> NodeCode(steps[k])]

---------------------------------------------------------------------------
(* C1 *)

\* C1: no two nodes of material_change_indexes have the same (partNumber,
\* changeIndex) pair, in the returned list and in the partial list after each
\* group, however many raw materialNumber strings derive the pair.
C1_KeyUniqueness ==
    \A i, j \in 1..Len(material_change_indexes) :
        i # j => NodeKey(material_change_indexes[i]) # NodeKey(material_change_indexes[j])

\* three differently spelled material numbers of one key ended in one node
C1_Witness ==
    /\ Returned
    /\ Len(Groups) = 3
    /\ Len(material_change_indexes) = 1

---------------------------------------------------------------------------
(* C2 *)

\* C2: when process ends without error, the quantities of the output nodes
\* add up to the quantities of the input records whose plannedOrderId starts
\* with "VH_".
C2_QuantityConserved ==
    Returned =>
        Total([k \in 1..Len(result.children) |-> NodeQuantity(result.children[k])])
        = Total([i \in 1..Len(materials) |->
                    IF VehicleLevel(materials[i]) THEN materials[i].quantity ELSE 0])

\* a merge of two groups and a record the filter dropped, in one run
C2_Witness ==
    /\ Returned
    /\ Len(materials) = 3
    /\ Len(Groups) = 2
    /\ Len(result.children) = 1
    /\ \E i \in 1..3 : ~VehicleLevel(materials[i])

---------------------------------------------------------------------------
(* C3 *)

WellFormed(material_number) ==
    /\ Len(material_number) >= 9
    /\ IsDigit(material_number[8])
    /\ IsDigit(material_number[9])

\* C3: a vehicle-level record whose materialNumber has fewer than 9
\* characters, or whose characters 7..8 are no number, makes the aggregation
\* fail: it never returns a node list.
C3_MalformedAlwaysFails ==
    Returned =>
        \A i \in 1..Len(materials) :
            VehicleLevel(materials[i]) => WellFormed(materials[i].materialNumber)

---------------------------------------------------------------------------
(* C4 *)

\* C4: in the returned list every group's key has exactly one node; the
\* node's quantity is the sum of the record quantities of all groups that
\* derive its key, and its relationshipChildren are those groups'
\* ProductionStepNode sequences one after the other in group order, nothing
\* deduplicated across groups.
C4_MergeAppends ==
    Returned =>
        /\ \A g \in 1..Len(Groups) :
              Cardinality({k \in 1..Len(material_change_indexes) :
                              NodeKey(material_change_indexes[k])
                              = DerivedKey(Groups[g].key)}) = 1
        /\ \A k \in 1..Len(material_change_indexes) :
              LET gs == GroupsOfKey(NodeKey(material_change_indexes[k]))
              IN  /\ NodeQuantity(material_change_indexes[k])
                     = Total([g \in 1..Len(gs) |-> QuantityOf(gs[g].items)])
                  /\ material_change_indexes[k].relationshipChildren
                     = Concat([g \in 1..Len(gs) |-> ExpectedSteps(gs[g].items)])

\* two groups of one key, the first with two step nodes, the second with a
\* step code the first already has
C4_Witness ==
    /\ Returned
    /\ Len(Groups) = 2
    /\ Groups[1].key # Groups[2].key
    /\ Len(material_change_indexes) = 1
    /\ Len(material_change_indexes[1].relationshipChildren) = 3
    /\ NodeCode(material_change_indexes[1].relationshipChildren[1])
       = NodeCode(material_change_indexes[1].relationshipChildren[3])

---------------------------------------------------------------------------
(* C5 *)

StepCodesUnique(steps) ==
    \A i, j \in 1..Len(steps) : i # j => NodeCode(steps[i]) # NodeCode(steps[j])

\* the inner loop takes a record whose step code a node of the group has
MatchingRecordTaken ==
    /\ InLoop
    /\ ri <= Len(group.items)
    /\ ri' = ri + 1
    /\ gi' = gi
    /\ \E k \in 1..Len(vehicle_production_steps) :
          NodeCode(vehicle_production_steps[k]) = StepCode(group.items[ri])

\* what it may do: raise the quantity of the node with that code, and no more
OnlyQuantityAdded ==
    /\ Len(vehicle_production_steps') = Len(vehicle_production_steps)
    /\ \A k \in 1..Len(vehicle_production_steps) :
          vehicle_production_steps'[k] =
             IF NodeCode(vehicle_production_steps[k]) = StepCode(group.items[ri])
             THEN [vehicle_production_steps[k] EXCEPT
                      !.relationshipAttributes.quantity = @ + group.items[ri].quantity]
             ELSE vehicle_production_steps[k]

\* C5: while a group is reduced and when its sequence is handed to the merge,
\* no two of its ProductionStepNodes share a step code; a record whose code a
\* node already has only adds its quantity to that node, wherever the node
\* sits in the sequence.
C5_StepUniqueness ==
    /\ [](StepCodesUnique(vehicle_production_steps))
    /\ [][MatchingRecordTaken => OnlyQuantityAdded]_vars

\* the third record of a group matched the first of two nodes
C5_Witness ==
    /\ InLoop
    /\ ri = 4
    /\ Len(vehicle_production_steps) = 2
    /\ StepCode(group.items[3]) = NodeCode(vehicle_production_steps[1])
    /\ NodeQuantity(vehicle_production_steps[1])
       = group.items[1].quantity + group.items[3].quantity

---------------------------------------------------------------------------
(* C6 *)

\* the derived keys of the records, each once, in first-occurrence order
KeysInOrder(recs) ==
    DistinctInOrder([i \in 1..Len(recs) |-> DerivedKey(recs[i].materialNumber)])

NodesInFirstOccurrenceOrder ==
    Returned =>
        [k \in 1..Len(material_change_indexes) |-> NodeKey(material_change_indexes[k])]
        = KeysInOrder(materials)

StepsInFirstSeenOrder ==
    InLoop =>
        Codes(vehicle_production_steps)
        = DistinctInOrder([i \in 1..Len(Consumed) |-> StepCode(Consumed[i])])

\* a placed node keeps its place: in the output list always, in the step
\* sequence for as long as the group is the current one
PlacedNodesStay ==
    /\ Len(material_change_indexes') >= Len(material_change_indexes)
    /\ \A k \in 1..Len(material_change_indexes) :
          NodeKey(material_change_indexes'[k]) = NodeKey(material_change_indexes[k])
    /\ gi' = gi =>
          /\ Len(vehicle_production_steps') >= Len(vehicle_production_steps)
          /\ \A k \in 1..Len(vehicle_production_steps) :
                NodeCode(vehicle_production_steps'[k])
                = NodeCode(vehicle_production_steps[k])

\* C6: output nodes stand in the order in which their derived key first occurs
\* among the records, the step nodes of a group in the order in which their
\* code is first seen, and no later duplicate or merged group moves a node.
C6_FirstOccurrenceOrder ==
    /\ [](NodesInFirstOccurrenceOrder /\ StepsInFirstSeenOrder)
    /\ [][PlacedNodesStay]_vars

\* two keys, the first of them met again in a later, differently spelled group
C6_Witness ==
    /\ Returned
    /\ Len(Groups) = 3
    /\ Len(material_change_indexes) = 2
    /\ DerivedKey(Groups[3].key) = NodeKey(material_change_indexes[1])

---------------------------------------------------------------------------
(* C7 *)

\* C7: whatever the order of a group's records, the quantity of a step node
\* is the sum of the quantities of the group's records with its step code;
\* the order decides only whose passthrough fields the node carries, the
\* first record's.
C7_StepQuantityIsSum ==
    InLoop =>
        \A k \in 1..Len(vehicle_production_steps) :
            LET c == NodeCode(vehicle_production_steps[k])
                ra == vehicle_production_steps[k].relationshipAttributes
            IN  /\ ra.quantity = QuantityOfCode(Consumed, c)
                /\ ra.plannedOrderNumber = FirstWithCode(Consumed, c).plannedOrderId

\* one step node built from two records of different order and quantity
C7_Witness ==
    /\ AtMerge
    /\ Len(group.items) = 2
    /\ Len(vehicle_production_steps) = 1
    /\ group.items[1].plannedOrderId # group.items[2].plannedOrderId
    /\ group.items[1].quantity = 2
    /\ group.items[2].quantity = 1

---------------------------------------------------------------------------
(* C8 *)

IsPrefix(s, t) == Len(s) <= Len(t) /\ SubSeq(t, 1, Len(s)) = s

\* C8 as stated: an appended node keeps its partNumber, its changeIndex and
\* its relationshipChildren sequence in every later step; only its quantity
\* may change.
C8_ShapeFrozen ==
    [][\A k \in 1..Len(material_change_indexes) :
          /\ k <= Len(material_change_indexes')
          /\ material_change_indexes'[k].attributes
             = material_change_indexes[k].attributes
          /\ material_change_indexes'[k].relationshipChildren
             = material_change_indexes[k].relationshipChildren]_vars

\* C8 amended: an appended node keeps its place, its partNumber and its
\* changeIndex, and the children it has stay as they are at the front of its
\* relationshipChildren; a later merge may add to its quantity and append
\* children behind them.
C8_ChildrenOnlyAppended ==
    [][\A k \in 1..Len(material_change_indexes) :
          /\ k <= Len(material_change_indexes')
          /\ material_change_indexes'[k].attributes
             = material_change_indexes[k].attributes
          /\ IsPrefix(material_change_indexes[k].relationshipChildren,
                      material_change_indexes'[k].relationshipChildren)]_vars

\* a second group has been merged into the node of the first
C8_Witness ==
    /\ pc = "loop"
    /\ gi = 3
    /\ Len(material_change_indexes) = 1
    /\ Len(material_change_indexes[1].relationshipChildren)
       > Len(ExpectedSteps(Groups[1].items))

---------------------------------------------------------------------------
(* C9 *)

\* the raw materialNumber strings of the vehicle-level records deriving key
SpellingsOfKey(key) ==
    { materials[i].materialNumber : i \in
        { j \in 1..Len(materials) :
            /\ VehicleLevel(materials[j])
            /\ DerivedKey(materials[j].materialNumber) = key } }

\* C9: through process every ProductionStepNode has productionStep "VH",
\* every group hands exactly one ProductionStepNode to the merge, and a
\* returned node has as many relationshipChildren as there are distinct raw
\* materialNumber strings among the filtered records that derive its key.
C9_OneStepPerSpelling ==
    /\ \A k \in 1..Len(vehicle_production_steps) :
          NodeCode(vehicle_production_steps[k]) = <<"V", "H">>
    /\ AtMerge => Len(vehicle_production_steps) = 1
    /\ Returned =>
          \A k \in 1..Len(result.children) :
              /\ \A c \in 1..Len(result.children[k].relationshipChildren) :
                    NodeCode(result.children[k].relationshipChildren[c]) = <<"V", "H">>
              /\ Len(result.children[k].relationshipChildren)
                 = Cardinality(SpellingsOfKey(NodeKey(result.children[k])))

\* a node of two spellings, one of them with two records, beside a dropped
\* record's absence: three vehicle-level records, two children
C9_Witness ==
    /\ Returned
    /\ Len(materials) = 3
    /\ \A i \in 1..3 : VehicleLevel(materials[i])
    /\ Len(result.children) = 1
    /\ Len(result.children[1].relationshipChildren) = 2

---------------------------------------------------------------------------
(* C10 *)

\* C10: after each group, and in the returned list, the quantity of every
\* MaterialChangeIndexNode is the sum of the quantities of the
\* ProductionStepNodes in its relationshipChildren.
C10_NodeQuantityIsChildrenSum ==
    \A k \in 1..Len(material_change_indexes) :
        NodeQuantity(material_change_indexes[k])
        = Total([c \in 1..Len(material_change_indexes[k].relationshipChildren) |->
                    NodeQuantity(material_change_indexes[k].relationshipChildren[c])])

\* a merged node one of whose children summed two records
C10_Witness ==
    /\ Returned
    /\ Len(materials) = 3
    /\ Len(Groups) = 2
    /\ Len(material_change_indexes) = 1
    /\ Len(material_change_indexes[1].relationshipChildren) = 2
    /\ NodeQuantity(material_change_indexes[1]) = 5

===========================================================================
